---- MODULE Spec2Model ----
(***************************************************************************)
(* The command/response bridge of the Figma MCP server (PluginBridge):     *)
(* lazy start of the plugin child process, newline-delimited JSON framing  *)
(* with a carry buffer, and correlation of replies to callers by id.      *)
(*                                                                         *)
(* Text on the wire is a sequence of tokens.  A token is a tuple of        *)
(* strings standing for a piece of the JSON text: the opening of an        *)
(* object with its id, the rest of the object, a blank, or the newline.    *)
(***************************************************************************)
EXTENDS Integers, Sequences, FiniteSets, TLC

\* ------------------------------------------------------------- bounds
\* sendCommand invocations over the life of the bridge
MaxCalls == 2
\* tokens the child's stdout pipe holds before the parent reads
MaxPipe == 3
\* values Date.now() returns: 0..MaxNow
MaxNow == 0
\* lines of the reply stream decoded under DecodeSpec
MaxRecs == 2

Calls == 1..MaxCalls
\* every spawn is made by a sendCommand, so there are at most MaxCalls children
Procs == 1..MaxCalls

VARIABLES
    pluginProcess,     \* the bridge's child process, 0 for null
    responseCallbacks, \* Map id -> the call whose promise the callback settles
    messageBuffer,     \* carry: the last, incomplete line
    messageId,         \* counter of generateId
    procState,         \* per child: "none", "running", "killed", "exited"
    stdin,             \* per child: the units written to its stdin
    stdout,            \* per child: tokens written by the child, not yet read
    call,              \* per sendCommand invocation: pc, cmd, id, value
    invoked,           \* the calls whose callback was invoked, in that order
    firstReply,        \* per call: the first decoded reply that carried its id
    noCallback,        \* ids the last turn of the event loop logged with
                       \* 'Received message without callback'
    stream,            \* DecodeSpec: the reply stream fed to the decoder
    fed,               \* DecodeSpec: how many tokens of it were fed
    decodedAll,        \* DecodeSpec: everything decoded so far, in order
    tool,              \* ToolSpec: one invocation of createWireframe
    stderr,            \* per child: tokens written to its stderr, not yet read
    rate               \* RateSpec: requestCount of one server's rate limiter

vars == <<pluginProcess, responseCallbacks, messageBuffer, messageId,
          procState, stdin, stdout, call, invoked, firstReply, noCallback,
          stream, fed, decodedAll, tool, stderr, rate>>

\* the variables of the bridge, its children and its callers
BridgeVars == <<pluginProcess, responseCallbacks, messageBuffer, messageId,
                procState, stdin, stdout, call, invoked, firstReply,
                noCallback, stream, fed, decodedAll>>

\* ------------------------------------------------------------- tokens
\* <<"{", id>>  stands for  {"id":"<id>",      and <<"{">> for  {
\* <<"}", s, k, v>>  stands for  "success":<s>,"<k>":"<v>"}
\* <<"}", s>>  stands for  "success":<s>}
NL == <<"\n">>
SP == <<" ">>
Null == <<"null">>
Undefined == "undefined"

IsSpace(t) == t = SP
NotSpace(t) == ~IsSpace(t)

\* String.prototype.trim() leaves something
TrimNonEmpty(line) == \E i \in 1..Len(line) : ~IsSpace(line[i])

Failed(kind) == [kind |-> kind, id |-> Undefined, success |-> Undefined,
                 data |-> Undefined, error |-> Undefined]

\* JSON.parse(line) as PluginResponse
JSONparse(line) ==
    LET s == SelectSeq(line, NotSpace)
    IN  IF Len(s) = 2 /\ s[1][1] = "{" /\ s[2][1] = "}"
        THEN LET head == s[1]
                 tail == s[2]
             IN  [kind |-> "object",
                  id |-> IF Len(head) = 2 THEN head[2] ELSE Undefined,
                  success |-> tail[2],
                  data |-> IF Len(tail) = 4 /\ tail[3] = "data"
                           THEN tail[4] ELSE Undefined,
                  error |-> IF Len(tail) = 4 /\ tail[3] = "error"
                            THEN tail[4] ELSE Undefined]
        ELSE IF s = <<Null>> THEN Failed("null")
        ELSE Failed("SyntaxError")

\* String.prototype.split('\n'): the segments between newlines, the last one
\* being what follows the last newline (possibly empty)
RECURSIVE SplitNL(_, _, _)
SplitNL(s, i, cur) ==
    IF i > Len(s) THEN <<cur>>
    ELSE IF s[i] = NL THEN <<cur>> \o SplitNL(s, i + 1, <<>>)
    ELSE SplitNL(s, i + 1, Append(cur, s[i]))

\* a payload is a sequence of characters, or the one-piece Circular for an
\* object that refers to itself
Circular == <<"circular">>

\* JSON.stringify of a string: a raw newline becomes the two characters \n
Escape(payload) ==
    [i \in DOMAIN payload |-> IF payload[i] = "\n" THEN "\\n" ELSE payload[i]]

\* JSON.stringify(message) with the payload put in as it is
StringifyRaw(cmd, id) ==
    << <<"{", "type", cmd.type, "payload">> \o cmd.payload, <<"id", id, "}">> >>

\* JSON.stringify(message) for message = {...command, id}
Stringify(cmd, id) ==
    << <<"{", "type", cmd.type, "payload">> \o Escape(cmd.payload),
       <<"id", id, "}">> >>

Throws(cmd) == cmd.payload = Circular

\* generateId without the counter: `cmd_${Date.now()}`
generateIdTimeOnly(t) == "cmd_" \o ToString(t)

\* generateId with a counter that starts again with each child: the number
\* of commands written to the current child
generateIdPerChild(t) ==
    "cmd_" \o ToString(t) \o "_"
           \o ToString(IF pluginProcess = 0 THEN 0 ELSE Len(stdin[pluginProcess]))

\* generateId: `cmd_${Date.now()}_${this.messageId++}`
generateId(t) == "cmd_" \o ToString(t) \o "_" \o ToString(messageId)

\* ------------------------------------------------------------- promises
NoReply == [kind |-> "none", id |-> Undefined, success |-> Undefined,
            data |-> Undefined, error |-> Undefined]

NewCall == [pc |-> "new", cmd |-> [type |-> "", payload |-> <<>>],
            id |-> Undefined, proc |-> 0, value |-> Undefined]

\* resolve()/reject() of a promise: only the first one has an effect
Settle(cs, c, how, v) ==
    IF cs[c].pc = "pending"
    THEN [cs EXCEPT ![c].pc = how, ![c].value = v]
    ELSE cs

Truthy(v) == v \notin {Undefined, "false", ""}

\* the callback with `new Error(response.error)`: no default message
CallbackNoDefault(cs, c, response) ==
    IF Truthy(response.success)
    THEN Settle(cs, c, "resolved", response.data)
    ELSE Settle(cs, c, "rejected", response.error)

\* the callback sendCommand stores under the id of call c
Callback(cs, c, response) ==
    IF Truthy(response.success)
    THEN Settle(cs, c, "resolved", response.data)
    ELSE Settle(cs, c, "rejected",
                IF Truthy(response.error) THEN response.error ELSE "Unknown error")

MapDelete(m, k) == [i \in DOMAIN m \ {k} |-> m[i]]
MapSet(m, k, v) == [i \in DOMAIN m \cup {k} |-> IF i = k THEN v ELSE m[i]]
EmptyMap == [i \in {} |-> 0]
Range(m) == {m[i] : i \in DOMAIN m}

\* ------------------------------------------------------------- handlePluginOutput
\* st = [cbs, call, invoked, firstReply, noCallback, decoded]: what the loop
\* body touches

\* observer: remember the first decoded reply carrying the id of each call
Observe(fr, cs, r) ==
    [c \in Calls |->
        IF r.kind = "object" /\ r.id # Undefined /\ cs[c].id = r.id
           /\ fr[c].kind = "none"
        THEN r ELSE fr[c]]

\* the loop body with the callback taken from the head of the Map instead of
\* under the id of the reply
ProcessLineFirstCallback(st, line) ==
    IF ~TrimNonEmpty(line) THEN st
    ELSE
      LET response == JSONparse(line)
          seen == [st EXCEPT !.decoded = Append(@, response),
                             !.firstReply = Observe(@, st.call, response)]
      IN  IF response.kind # "object"
          THEN seen
          ELSE IF Truthy(response.id) /\ response.id \in DOMAIN st.cbs
          THEN LET c == CHOOSE d \in Range(st.cbs) : \A e \in Range(st.cbs) : d <= e
               IN  [seen EXCEPT !.call = Callback(@, c, response),
                                !.invoked = Append(@, c),
                                !.cbs = MapDelete(@, response.id)]
          ELSE [seen EXCEPT !.noCallback = @ \cup {response.id}]

\* the loop body without responseCallbacks.delete(response.id)
ProcessLineNoDelete(st, line) ==
    IF ~TrimNonEmpty(line) THEN st
    ELSE
      LET response == JSONparse(line)
          seen == [st EXCEPT !.decoded = Append(@, response),
                             !.firstReply = Observe(@, st.call, response)]
      IN  IF response.kind # "object"
          THEN seen
          ELSE IF Truthy(response.id) /\ response.id \in DOMAIN st.cbs
          THEN LET c == st.cbs[response.id]
               IN  [seen EXCEPT !.call = Callback(@, c, response),
                                !.invoked = Append(@, c)]
          ELSE [seen EXCEPT !.noCallback = @ \cup {response.id}]

\* the loop body with a reply without callback taken for a protocol
\* failure that clears the Map
ProcessLineClearOnUnknown(st, line) ==
    IF ~TrimNonEmpty(line) THEN st
    ELSE
      LET response == JSONparse(line)
          seen == [st EXCEPT !.decoded = Append(@, response),
                             !.firstReply = Observe(@, st.call, response)]
      IN  IF response.kind # "object"
          THEN seen
          ELSE IF Truthy(response.id) /\ response.id \in DOMAIN st.cbs
          THEN LET c == st.cbs[response.id]
               IN  [seen EXCEPT !.call = Callback(@, c, response),
                                !.invoked = Append(@, c),
                                !.cbs = MapDelete(@, response.id)]
          ELSE [seen EXCEPT !.noCallback = @ \cup {response.id},
                            !.cbs = EmptyMap]

\* the loop body with a line that fails to parse taken for the end of the
\* protocol: every pending call is rejected
ProcessLineRejectOnError(st, line) ==
    IF ~TrimNonEmpty(line) THEN st
    ELSE
      LET response == JSONparse(line)
          seen == [st EXCEPT !.decoded = Append(@, response),
                             !.firstReply = Observe(@, st.call, response)]
      IN  IF response.kind # "object"
          THEN [seen EXCEPT !.call = [c \in Calls |->
                                         IF st.call[c].pc = "pending"
                                         THEN [st.call[c] EXCEPT !.pc = "rejected",
                                                                 !.value = "ProtocolError"]
                                         ELSE st.call[c]]]
          ELSE IF Truthy(response.id) /\ response.id \in DOMAIN st.cbs
          THEN LET c == st.cbs[response.id]
               IN  [seen EXCEPT !.call = Callback(@, c, response),
                                !.invoked = Append(@, c),
                                !.cbs = MapDelete(@, response.id)]
          ELSE [seen EXCEPT !.noCallback = @ \cup {response.id}]

\* the body of the for loop, for one line
ProcessLine(st, line) ==
    IF ~TrimNonEmpty(line) THEN st
    ELSE
      LET response == JSONparse(line)
          seen == [st EXCEPT !.decoded = Append(@, response),
                             !.firstReply = Observe(@, st.call, response)]
      IN  IF response.kind # "object"
          THEN seen  \* SyntaxError, or TypeError on null.id: caught and logged
          ELSE IF Truthy(response.id) /\ response.id \in DOMAIN st.cbs
          THEN LET c == st.cbs[response.id]
               IN  [seen EXCEPT !.call = Callback(@, c, response),
                                !.invoked = Append(@, c),
                                !.cbs = MapDelete(@, response.id)]
          ELSE [seen EXCEPT !.noCallback = @ \cup {response.id}]

\* the for loop without the try/catch around its body: the first line that
\* fails to parse ends the loop
RECURSIVE ProcessLinesAbortOnError(_, _, _)
ProcessLinesAbortOnError(st, lines, i) ==
    IF i > Len(lines) THEN st
    ELSE IF TrimNonEmpty(lines[i]) /\ JSONparse(lines[i]).kind # "object"
    THEN [st EXCEPT !.decoded = Append(@, JSONparse(lines[i]))]
    ELSE ProcessLinesAbortOnError(ProcessLine(st, lines[i]), lines, i + 1)

\* the for loop taking the lines from the last to the first
RECURSIVE ProcessLinesBackward(_, _, _)
ProcessLinesBackward(st, lines, i) ==
    IF i > Len(lines) THEN st
    ELSE ProcessLine(ProcessLinesBackward(st, lines, i + 1), lines[i])

RECURSIVE ProcessLines(_, _, _)
ProcessLines(st, lines, i) ==
    IF i > Len(lines) THEN st
    ELSE ProcessLines(ProcessLine(st, lines[i]), lines, i + 1)

\* handlePluginOutput without `this.messageBuffer += data`: the carry is lost
HandlePluginOutputNoCarry(b, data) ==
    LET lines == SplitNL(data, 1, <<>>)
        n == Len(lines)
        st == ProcessLines([cbs |-> b.cbs, call |-> b.call, invoked |-> b.invoked,
                            firstReply |-> b.firstReply, noCallback |-> {},
                            decoded |-> <<>>],
                           SubSeq(lines, 1, n - 1), 1)
    IN  [buf |-> lines[n], cbs |-> st.cbs, call |-> st.call,
         invoked |-> st.invoked, firstReply |-> st.firstReply,
         noCallback |-> st.noCallback, decoded |-> st.decoded]

\* handlePluginOutput without `lines.pop()`: what follows the last newline
\* is processed as a line and nothing is carried
HandlePluginOutputNoPop(b, data) ==
    LET buffer == b.buf \o data
        lines == SplitNL(buffer, 1, <<>>)
        st == ProcessLines([cbs |-> b.cbs, call |-> b.call, invoked |-> b.invoked,
                            firstReply |-> b.firstReply, noCallback |-> {},
                            decoded |-> <<>>],
                           lines, 1)
    IN  [buf |-> <<>>, cbs |-> st.cbs, call |-> st.call,
         invoked |-> st.invoked, firstReply |-> st.firstReply,
         noCallback |-> st.noCallback, decoded |-> st.decoded]

\* handlePluginOutput(data) from bridge state b = [buf, cbs, call, invoked,
\* firstReply, noCallback]; gives the same fields after the call, and what
\* the call decoded
HandlePluginOutput(b, data) ==
    LET buffer == b.buf \o data
        lines == SplitNL(buffer, 1, <<>>)
        n == Len(lines)
        st == ProcessLines([cbs |-> b.cbs, call |-> b.call, invoked |-> b.invoked,
                            firstReply |-> b.firstReply, noCallback |-> {},
                            decoded |-> <<>>],
                           SubSeq(lines, 1, n - 1), 1)
    IN  [buf |-> lines[n], cbs |-> st.cbs, call |-> st.call,
         invoked |-> st.invoked, firstReply |-> st.firstReply,
         noCallback |-> st.noCallback, decoded |-> st.decoded]

Bridge == [buf |-> messageBuffer, cbs |-> responseCallbacks, call |-> call,
           invoked |-> invoked, firstReply |-> firstReply,
           noCallback |-> noCallback]

\* the assignments of one handlePluginOutput(data) call
OnData(data) ==
    LET after == HandlePluginOutput(Bridge, data)
    IN  /\ messageBuffer' = after.buf
        /\ responseCallbacks' = after.cbs
        /\ call' = after.call
        /\ invoked' = after.invoked
        /\ firstReply' = after.firstReply
        /\ noCallback' = after.noCallback

\* ------------------------------------------------------------- createWireframe
\* A text is a sequence of pieces, a piece being a string of the template or
\* a value put into it.

\* new Error(message), and what `error instanceof Error` tells of it
Error(message) == [instanceofError |-> TRUE, message |-> message]

NoError == [instanceofError |-> FALSE, message |-> <<>>]

\* CreateWireframeParams
Params ==
    [description : {"d"},
     pages : {Undefined, "Home,Portfolio"},
     style : {Undefined, "modern"},
     designSystemId : {Undefined, "", "valid-system", "invalid-system"}]

NoParams == [description |-> "", pages |-> Undefined, style |-> Undefined,
             designSystemId |-> Undefined]

\* what `await getDesignSystem(id)` gives: a result with the data, a result
\* with empty or missing contents, or the rejection of the lookup
NoLookup == [threw |-> FALSE, error |-> NoError, data |-> Undefined, contents |-> "none"]

Lookups(id) ==
    {[threw |-> FALSE, error |-> NoError, data |-> "ds:" \o id, contents |-> "one"],
     [threw |-> FALSE, error |-> NoError, data |-> Undefined, contents |-> "empty"],
     [threw |-> FALSE, error |-> NoError, data |-> Undefined, contents |-> "undefined"],
     [threw |-> TRUE, error |-> Error(<<"Design system not found", ": ", id>>),
      data |-> Undefined, contents |-> "none"]}

\* what `await sendPluginCommand(...)` gives: the promise of sendCommand
\* resolved with the data of a reply (a WireframeResult, something else, or
\* nothing) or rejected with one of the Errors sendCommand rejects with
WireframeResult == "wireframe"

SendOutcomes ==
    {[how |-> "resolved", value |-> v, error |-> NoError] :
        v \in {WireframeResult, "a", Undefined}}
    \cup {[how |-> "rejected", value |-> Undefined, error |-> Error(<<m>>)] :
            m \in {"Figma CLI not found", "Figma plugin directory not found",
                   "Plugin process not initialized",
                   "TypeError: circular structure", "b", "Unknown error"}}

NoOutcome == [how |-> "none", value |-> Undefined, error |-> NoError]

NoResult == [outcome |-> "none", isError |-> Undefined, text |-> <<>>,
             data |-> Undefined]

ToolIdle == [pc |-> "idle", params |-> NoParams, lookup |-> NoLookup,
             sent |-> <<>>, reply |-> NoOutcome, result |-> NoResult]

\* the catch block with `throw error` in it
CatchRethrow(error) ==
    [outcome |-> "threw", isError |-> Undefined, text |-> error.message,
     data |-> Undefined]

\* the catch block: the ToolResult returned for `error`
Catch(error) ==
    [outcome |-> "returned", isError |-> TRUE,
     text |-> <<"Failed to create wireframe", ": ">>
              \o (IF error.instanceofError THEN error.message
                  ELSE <<"Unknown error">>),
     data |-> Undefined]

\* the command createWireframe sends
WireframeCommand(params, designSystem) ==
    [type |-> "CREATE_WIREFRAME",
     payload |-> [description |-> params.description,
                  pages |-> IF Truthy(params.pages) THEN params.pages
                            ELSE "Home,About,Contact",
                  style |-> IF Truthy(params.style) THEN params.style
                            ELSE "minimal",
                  designSystem |-> designSystem,
                  dimensions |-> <<1440, 900>>]]

\* the ToolResult returned for a result of sendPluginCommand; reading
\* result.wireframeId of undefined, or result.pageIds.length of a result
\* without pageIds, throws a TypeError inside the try block
Success(result) ==
    IF result = Undefined
    THEN Catch(Error(<<"Cannot read properties of undefined (reading 'wireframeId')">>))
    ELSE IF result # WireframeResult
    THEN Catch(Error(<<"Cannot read properties of undefined (reading 'length')">>))
    ELSE [outcome |-> "returned", isError |-> Undefined,
          text |-> <<"Wireframe created successfully with ID: ", "id:" \o result,
                     ". Created ", "3", " pages.">>,
          data |-> result]

\* ------------------------------------------------------------- checkRateLimit
\* RATE_LIMIT of the MongoDB server and of the Serper server
PerSecond == 5
PerDayMongo == 1000
PerDaySerper == 2500
\* the length of the per-second window, in ms
WindowMs == 1000

Servers == {"mongodb", "serper"}

PerDay(server) == IF server = "mongodb" THEN PerDayMongo ELSE PerDaySerper

\* requestCount of `server` as the module sets it: lastReset is kept as
\* sinceReset, the ms from lastReset to the Date.now() of the latest call
\* (or of the load of the module); lastDayReset is the start of the day of
\* the latest call, since a call on a later day always resets it
NewRequestCount(server) ==
    [server |-> server, second |-> 0, day |-> 0, sinceReset |-> 0,
     last |-> "none"]

\* no rate limiter at work
RateIdle == NewRequestCount("none")

\* the ms that Date.now() may have moved on since the call before: none, a
\* whole window, and more than a window
Delays == {0, WindowMs, WindowMs + 1}

\* the two resets of checkRateLimit: of the second counter when more than a
\* window has passed since lastReset, of the daily counter when the day
\* started after lastDayReset
ResetCounters(rc, d, newDay) ==
    LET elapsed == rc.sinceReset + d
    IN  [rc EXCEPT !.second = IF elapsed > WindowMs THEN 0 ELSE @,
                   !.sinceReset = IF elapsed > WindowMs THEN 0 ELSE elapsed,
                   !.day = IF newDay THEN 0 ELSE @]

\* checkRateLimit that counts the request before it checks the limits
checkRateLimitCountFirst(rc, d, newDay) ==
    LET r == ResetCounters(rc, d, newDay)
        n == [r EXCEPT !.second = @ + 1, !.day = @ + 1]
    IN  IF n.second >= PerSecond \/ n.day >= PerDay(n.server)
        THEN [n EXCEPT !.last = "rejected"]
        ELSE [n EXCEPT !.last = "ok"]

\* checkRateLimit() called d ms after the call before, on a new day or not:
\* the resets, then `throw new Error('Rate limit exceeded')` with the
\* counters as they are, or both counters incremented
checkRateLimit(rc, d, newDay) ==
    LET r == ResetCounters(rc, d, newDay)
    IN  IF r.second >= PerSecond \/ r.day >= PerDay(r.server)
        THEN [r EXCEPT !.last = "rejected"]
        ELSE [r EXCEPT !.second = @ + 1, !.day = @ + 1, !.last = "ok"]

\* ------------------------------------------------------------- the bridge
Commands == {[type |-> "GET_SELECTION", payload |-> <<"p", "\n">>],
             [type |-> "CREATE_WIREFRAME", payload |-> Circular]}

Init ==
    /\ pluginProcess = 0
    /\ responseCallbacks = EmptyMap
    /\ messageBuffer = <<>>
    /\ messageId = 0
    /\ procState = [p \in Procs |-> "none"]
    /\ stdin = [p \in Procs |-> <<>>]
    /\ stdout = [p \in Procs |-> <<>>]
    /\ call = [c \in Calls |-> NewCall]
    /\ invoked = <<>>
    /\ firstReply = [c \in Calls |-> NoReply]
    /\ noCallback = {}
    /\ stream = <<>>
    /\ fed = 0
    /\ decodedAll = <<>>
    /\ tool = ToolIdle
    /\ stderr = [p \in Procs |-> <<>>]
    /\ rate = RateIdle

\* the executor without `this.responseCallbacks.set(id, ...)`
ExecutorWriteOnly(c, cmd, pp, t) ==
    LET id == generateId(t)
    IN  /\ messageId' = messageId + 1
        /\ responseCallbacks' = responseCallbacks
        /\ IF pp # 0 /\ ~Throws(cmd)
           THEN /\ call' = [call EXCEPT ![c] =
                       [pc |-> "pending", cmd |-> cmd, id |-> id, proc |-> pp,
                        value |-> Undefined]]
                /\ stdin' = [stdin EXCEPT ![pp] =
                                Append(@, Stringify(cmd, id) \o <<NL>>)]
           ELSE /\ call' = [call EXCEPT ![c] =
                       [pc |-> "rejected", cmd |-> cmd, id |-> id, proc |-> 0,
                        value |-> IF pp # 0 THEN "TypeError: circular structure"
                                  ELSE "Plugin process not initialized"]]
                /\ stdin' = stdin

\* the executor writing the command again when the first write gave no
\* confirmation
ExecutorWriteTwice(c, cmd, pp, t) ==
    LET id == generateId(t)
    IN  /\ messageId' = messageId + 1
        /\ responseCallbacks' = MapSet(responseCallbacks, id, c)
        /\ IF pp # 0 /\ ~Throws(cmd)
           THEN /\ call' = [call EXCEPT ![c] =
                       [pc |-> "pending", cmd |-> cmd, id |-> id, proc |-> pp,
                        value |-> Undefined]]
                /\ stdin' = [stdin EXCEPT ![pp] =
                                @ \o <<Stringify(cmd, id) \o <<NL>>,
                                       Stringify(cmd, id) \o <<NL>> >>]
           ELSE /\ call' = [call EXCEPT ![c] =
                       [pc |-> "rejected", cmd |-> cmd, id |-> id, proc |-> 0,
                        value |-> IF pp # 0 THEN "TypeError: circular structure"
                                  ELSE "Plugin process not initialized"]]
                /\ stdin' = stdin

\* the executor of the promise sendCommand returns, for call c, with pp the
\* value of this.pluginProcess when it runs and t what Date.now() returns
Executor(c, cmd, pp, t) ==
    LET id == generateId(t)
    IN  /\ messageId' = messageId + 1
        /\ responseCallbacks' = MapSet(responseCallbacks, id, c)
        /\ IF pp # 0
           THEN IF Throws(cmd)
                THEN /\ call' = [call EXCEPT ![c] =
                            [pc |-> "rejected", cmd |-> cmd, id |-> id, proc |-> 0,
                             value |-> "TypeError: circular structure"]]
                     /\ stdin' = stdin
                ELSE /\ call' = [call EXCEPT ![c] =
                            [pc |-> "pending", cmd |-> cmd, id |-> id, proc |-> pp,
                             value |-> Undefined]]
                     /\ stdin' = [stdin EXCEPT ![pp] =
                                     Append(@, Stringify(cmd, id) \o <<NL>>)]
           ELSE /\ call' = [call EXCEPT ![c] =
                       [pc |-> "rejected", cmd |-> cmd, id |-> id, proc |-> 0,
                        value |-> "Plugin process not initialized"]]
                /\ stdin' = stdin

Started == {c \in Calls : call[c].pc # "new"}

\* sendCommand(cmd) up to its first suspension: with a child at hand the
\* executor runs at once, without one the call waits inside initialize() for
\* the 'close' of the version check of isFigmaCliInstalled
SendCommand(c, cmd, t) ==
    /\ noCallback' = {}
    /\ call[c].pc = "new"
    /\ c = Cardinality(Started) + 1
    /\ IF pluginProcess = 0
       THEN /\ call' = [call EXCEPT ![c].pc = "initializing", ![c].cmd = cmd]
            /\ UNCHANGED <<messageId, responseCallbacks, stdin>>
       ELSE Executor(c, cmd, pluginProcess, t)
    /\ UNCHANGED <<pluginProcess, messageBuffer, procState, stdout, invoked,
                   firstReply, stream, fed, decodedAll, tool,
                   stderr, rate>>

FreeProc == CHOOSE p \in Procs : procState[p] = "none" /\ \A q \in Procs : procState[q] = "none" => p <= q

\* initialize() with a catch that logs and does not rethrow: sendCommand
\* goes on to its executor after a failed start
CliCloseSwallow(c, code, dirExists, t) ==
    /\ noCallback' = {}
    /\ call[c].pc = "initializing"
    /\ IF code # 0 \/ ~dirExists
       THEN /\ Executor(c, call[c].cmd, pluginProcess, t)
            /\ UNCHANGED <<pluginProcess, procState>>
       ELSE /\ pluginProcess' = FreeProc
            /\ procState' = [procState EXCEPT ![FreeProc] = "running"]
            /\ Executor(c, call[c].cmd, FreeProc, t)
    /\ UNCHANGED <<messageBuffer, stdout, invoked, firstReply, stream, fed,
                   decodedAll, tool,
                   stderr, rate>>

\* the version check closes with `code`; initialize() goes on to its end and
\* the awaiting sendCommand resumes in the same turn of the event loop
CliClose(c, code, dirExists, t) ==
    /\ noCallback' = {}
    /\ call[c].pc = "initializing"
    /\ IF code # 0
       THEN /\ call' = [call EXCEPT ![c].pc = "rejected",
                                      ![c].value = "Figma CLI not found"]
            /\ UNCHANGED <<pluginProcess, procState, messageId, responseCallbacks, stdin>>
       ELSE IF ~dirExists
       THEN /\ call' = [call EXCEPT ![c].pc = "rejected",
                                      ![c].value = "Figma plugin directory not found"]
            /\ UNCHANGED <<pluginProcess, procState, messageId, responseCallbacks, stdin>>
       ELSE /\ pluginProcess' = FreeProc
            /\ procState' = [procState EXCEPT ![FreeProc] = "running"]
            /\ Executor(c, call[c].cmd, FreeProc, t)
    /\ UNCHANGED <<messageBuffer, stdout, invoked, firstReply, stream, fed,
                   decodedAll, tool,
                   stderr, rate>>

\* Buffer.toString() of a chunk: the tokens stand for single-byte text, which
\* decodes to itself wherever the chunk is cut
BufferToString(chunk) == chunk

\* 'data' on the stdout of child p: the first k tokens of the pipe
StdoutData(p, k) ==
    /\ procState[p] # "none"
    /\ k \in 1..Len(stdout[p])
    /\ stdout' = [stdout EXCEPT ![p] = SubSeq(@, k + 1, Len(@))]
    /\ OnData(BufferToString(SubSeq(stdout[p], 1, k)))
    /\ UNCHANGED <<pluginProcess, messageId, procState, stdin, stream, fed,
                   decodedAll, tool,
                   stderr, rate>>

\* the exit handler without `this.pluginProcess = null`
ExitEventKeepsProcess(p) ==
    /\ noCallback' = {}
    /\ procState[p] \in {"running", "killed"}
    /\ procState' = [procState EXCEPT ![p] = "exited"]
    /\ UNCHANGED <<pluginProcess, responseCallbacks, messageBuffer, messageId,
                   stdin, stdout, call, invoked, firstReply, stream, fed,
                   decodedAll, tool,
                   stderr, rate>>

\* 'exit' of child p
ExitEvent(p) ==
    /\ noCallback' = {}
    /\ procState[p] \in {"running", "killed"}
    /\ procState' = [procState EXCEPT ![p] = "exited"]
    /\ pluginProcess' = 0
    /\ UNCHANGED <<responseCallbacks, messageBuffer, messageId, stdin, stdout,
                   call, invoked, firstReply, stream, fed, decodedAll, tool,
                   stderr, rate>>

\* shutdown() without `this.pluginProcess = null`
ShutdownKeepsProcess ==
    /\ noCallback' = {}
    /\ IF pluginProcess # 0
       THEN procState' = [procState EXCEPT ![pluginProcess] = "killed"]
       ELSE UNCHANGED procState
    /\ UNCHANGED <<pluginProcess, responseCallbacks, messageBuffer, messageId,
                   stdin, stdout, call, invoked, firstReply, stream, fed,
                   decodedAll, tool,
                   stderr, rate>>

\* shutdown()
Shutdown ==
    /\ noCallback' = {}
    /\ IF pluginProcess # 0
       THEN /\ procState' = [procState EXCEPT ![pluginProcess] = "killed"]
            /\ pluginProcess' = 0
       ELSE UNCHANGED <<procState, pluginProcess>>
    /\ UNCHANGED <<responseCallbacks, messageBuffer, messageId, stdin, stdout,
                   call, invoked, firstReply, stream, fed, decodedAll, tool,
                   stderr, rate>>

\* ------------------------------------------------------------- the child
Outcomes == {<<"true", "data", "a">>, <<"false", "error", "b">>}

Opening(id) == IF id = Undefined THEN <<"{">> ELSE <<"{", id>>

ReplyLine(id, o) == <<Opening(id), <<"}">> \o o>>

\* the ids child p has read from its stdin
IdsRead(p) == {call[c].id : c \in {d \in Calls : call[d].proc = p}}

\* what child p may write in one go: a reply line for an id it was sent or
\* for none, or a line that is no JSON
ChildUnits(p) ==
    {ReplyLine(id, o) \o <<NL>> : id \in IdsRead(p), o \in Outcomes}
    \cup {ReplyLine(Undefined, <<"true", "data", "a">>) \o <<NL>>}
    \cup {<<Opening(Undefined), NL>>}

ChildWrite(p, unit) ==
    /\ noCallback' = {}
    /\ procState[p] \in {"running", "killed"}
    /\ Len(stdout[p]) + Len(unit) <= MaxPipe
    /\ stdout' = [stdout EXCEPT ![p] = @ \o unit]
    /\ UNCHANGED <<pluginProcess, responseCallbacks, messageBuffer, messageId,
                   procState, stdin, call, invoked, firstReply, stream, fed,
                   decodedAll, tool,
                   stderr, rate>>

Next ==
    \/ \E c \in Calls, cmd \in Commands, t \in 0..MaxNow : SendCommand(c, cmd, t)
    \/ \E c \in Calls, code \in {0, 1}, dirExists \in BOOLEAN, t \in 0..MaxNow :
          CliClose(c, code, dirExists, t)
    \/ \E p \in Procs, k \in 1..MaxPipe : StdoutData(p, k)
    \/ \E p \in Procs : ExitEvent(p)
    \/ Shutdown
    \/ \E p \in Procs : \E unit \in ChildUnits(p) : ChildWrite(p, unit)

Spec == Init /\ [][Next]_vars

\* what the event loop runs whenever it is due: delivery of data waiting in
\* a pipe, the 'close' of a version check, the 'exit' of a killed child.
\* Callers and running children are under no obligation to act.
FairSpec ==
    /\ Spec
    /\ WF_vars(\E p \in Procs, k \in 1..MaxPipe : StdoutData(p, k))
    /\ WF_vars(\E c \in Calls, code \in {0, 1}, dirExists \in BOOLEAN, t \in 0..MaxNow :
                  CliClose(c, code, dirExists, t))
    /\ WF_vars(\E p \in Procs : procState[p] = "killed" /\ ExitEvent(p))

\* the bridge used by callers that never call sendCommand while another
\* sendCommand is inside initialize(): at most one start is under way
SeqNext ==
    /\ Next
    /\ Cardinality({c \in Calls : call'[c].pc = "initializing"}) <= 1

SeqSpec == Init /\ [][SeqNext]_vars

\* ------------------------------------------------------------- decoding alone
\* handlePluginOutput fed one reply stream in chunks of any sizes, by a child
\* that was sent MaxCalls commands, all still pending
DecodeId(c) == "cmd_0_" \o ToString(c - 1)

DecodeCmd == [type |-> "GET_SELECTION", payload |-> <<"p", "\n">>]

DecodeCalls ==
    [c \in Calls |-> [pc |-> "pending", cmd |-> DecodeCmd, id |-> DecodeId(c),
                      proc |-> 1, value |-> Undefined]]

DecodeCallbacks == [i \in {DecodeId(c) : c \in Calls} |->
                       CHOOSE c \in Calls : DecodeId(c) = i]

DecodeBridge ==
    [buf |-> <<>>, cbs |-> DecodeCallbacks, call |-> DecodeCalls, invoked |-> <<>>,
     firstReply |-> [c \in Calls |-> NoReply], noCallback |-> {}]

\* the lines of the streams: replies for the first two ids, a second and
\* different reply for the first, a reply without id, a reply with blanks in
\* it, and lines that are no replies
DecodeLines ==
    {ReplyLine(DecodeId(1), <<"true", "data", "a">>),
     ReplyLine(DecodeId(2), <<"false", "error", "b">>),
     ReplyLine(DecodeId(1), <<"false">>),
     ReplyLine(Undefined, <<"true", "data", "a">>),
     <<SP, Opening(DecodeId(2)), SP, <<"}", "true", "data", "c">> >>,
     <<SP>>, <<Opening(Undefined)>>, <<Null>>}

RECURSIVE Streams(_)
Streams(n) ==
    IF n = 0 THEN {<<>>}
    ELSE LET shorter == Streams(n - 1)
         IN  shorter \cup {s \o l \o <<NL>> : s \in shorter, l \in DecodeLines}

DecodeInit ==
    /\ pluginProcess = 1
    /\ responseCallbacks = DecodeCallbacks
    /\ messageBuffer = <<>>
    /\ messageId = MaxCalls
    /\ procState = [p \in Procs |-> IF p = 1 THEN "running" ELSE "none"]
    /\ stdin = [p \in Procs |->
                  IF p = 1 THEN [c \in Calls |-> Stringify(DecodeCmd, DecodeId(c)) \o <<NL>>]
                  ELSE <<>>]
    /\ stdout = [p \in Procs |-> <<>>]
    /\ call = DecodeCalls
    /\ invoked = <<>>
    /\ firstReply = [c \in Calls |-> NoReply]
    /\ noCallback = {}
    /\ stream \in Streams(MaxRecs)
    /\ fed = 0
    /\ decodedAll = <<>>
    /\ tool = ToolIdle
    /\ stderr = [p \in Procs |-> <<>>]
    /\ rate = RateIdle

\* one 'data' event carrying the next k tokens of the stream
DecodeFeed(k) ==
    /\ fed + k <= Len(stream)
    /\ LET data == BufferToString(SubSeq(stream, fed + 1, fed + k))
       IN  /\ OnData(data)
           /\ decodedAll' = decodedAll \o HandlePluginOutput(Bridge, data).decoded
    /\ fed' = fed + k
    /\ UNCHANGED <<pluginProcess, messageId, procState, stdin, stdout, stream,
                   tool, stderr, rate>>

DecodeNext == \E k \in 1..(3 * MaxRecs + 3) : DecodeFeed(k)

DecodeSpec == DecodeInit /\ [][DecodeNext]_vars

\* ------------------------------------------------------------- decoding, with stderr
\* The child of DecodeSpec also writes to its stderr: diagnostics, and text
\* that would be a reply, or the end of a line, had it come on stdout.
StderrUnits ==
    {<<<<"Error: boom">>, NL>>,
     ReplyLine(DecodeId(1), <<"true", "data", "a">>) \o <<NL>>,
     <<NL>>}

ChildWriteStderr(p, unit) ==
    /\ procState[p] = "running"
    /\ Len(stderr[p]) + Len(unit) <= MaxPipe
    /\ stderr' = [stderr EXCEPT ![p] = @ \o unit]
    /\ UNCHANGED <<BridgeVars, tool, rate>>

\* the stderr handler given to handlePluginOutput, as the stdout handler is
StderrDataParsed(p, k) ==
    /\ procState[p] # "none"
    /\ k \in 1..Len(stderr[p])
    /\ stderr' = [stderr EXCEPT ![p] = SubSeq(@, k + 1, Len(@))]
    /\ OnData(BufferToString(SubSeq(stderr[p], 1, k)))
    /\ UNCHANGED <<pluginProcess, messageId, procState, stdin, stdout, stream,
                   fed, decodedAll, tool, rate>>

\* 'data' on the stderr of child p, the first k tokens of the pipe:
\* console.error of the text
StderrData(p, k) ==
    /\ procState[p] # "none"
    /\ k \in 1..Len(stderr[p])
    /\ stderr' = [stderr EXCEPT ![p] = SubSeq(@, k + 1, Len(@))]
    /\ UNCHANGED <<BridgeVars, tool, rate>>

StderrNext ==
    \/ DecodeNext
    \/ \E p \in Procs : \E unit \in StderrUnits : ChildWriteStderr(p, unit)
    \/ \E p \in Procs, k \in 1..MaxPipe : StderrData(p, k)

StderrSpec == DecodeInit /\ [][StderrNext]_vars

\* ------------------------------------------------------------- createWireframe alone
\* One invocation of createWireframe; getDesignSystem and sendPluginCommand
\* are its environment, the bridge is left as constructed.

\* designSystemResult.contents?.[0]?.data
DataOf(l) == IF l.contents = "one" THEN l.data ELSE Undefined

\* createWireframe(params) up to its first await
CreateWireframe(params) ==
    /\ tool.pc = "idle"
    /\ IF Truthy(params.designSystemId)
       THEN tool' = [tool EXCEPT !.pc = "lookup", !.params = params]
       ELSE tool' = [tool EXCEPT !.pc = "sending", !.params = params,
                                 !.sent = Append(@, WireframeCommand(params, Undefined))]
    /\ UNCHANGED <<BridgeVars, stderr, rate>>

\* the lookup settled and createWireframe goes on, without the check of
\* `designSystem`
LookupDoneNoCheck(l) ==
    /\ tool.pc = "lookup"
    /\ IF l.threw
       THEN tool' = [tool EXCEPT !.pc = "done", !.lookup = l,
                                 !.result = Catch(l.error)]
       ELSE tool' = [tool EXCEPT !.pc = "sending", !.lookup = l,
                                 !.sent = Append(@, WireframeCommand(tool.params, DataOf(l)))]
    /\ UNCHANGED <<BridgeVars, stderr, rate>>

\* getDesignSystem settled with l and createWireframe goes on to its next
\* await, or to its end
LookupDone(l) ==
    /\ tool.pc = "lookup"
    /\ IF l.threw
       THEN tool' = [tool EXCEPT !.pc = "done", !.lookup = l,
                                 !.result = Catch(l.error)]
       ELSE IF ~Truthy(DataOf(l))
       THEN tool' = [tool EXCEPT !.pc = "done", !.lookup = l,
                                 !.result = Catch(Error(<<"Design system not found", ": ",
                                                          tool.params.designSystemId>>))]
       ELSE tool' = [tool EXCEPT !.pc = "sending", !.lookup = l,
                                 !.sent = Append(@, WireframeCommand(tool.params, DataOf(l)))]
    /\ UNCHANGED <<BridgeVars, stderr, rate>>

\* sendPluginCommand settled with o and createWireframe returns
Replied(o) ==
    /\ tool.pc = "sending"
    /\ tool' = [tool EXCEPT !.pc = "done", !.reply = o,
                            !.result = IF o.how = "resolved" THEN Success(o.value)
                                       ELSE Catch(o.error)]
    /\ UNCHANGED <<BridgeVars, stderr, rate>>

ToolNext ==
    \/ \E params \in Params : CreateWireframe(params)
    \/ \E l \in Lookups(tool.params.designSystemId) : LookupDone(l)
    \/ \E o \in SendOutcomes : Replied(o)

ToolSpec == Init /\ [][ToolNext]_vars

\* ------------------------------------------------------------- checkRateLimit alone
\* one server process, its requestCount as the module sets it at load
RateInit ==
    /\ pluginProcess = 0
    /\ responseCallbacks = EmptyMap
    /\ messageBuffer = <<>>
    /\ messageId = 0
    /\ procState = [p \in Procs |-> "none"]
    /\ stdin = [p \in Procs |-> <<>>]
    /\ stdout = [p \in Procs |-> <<>>]
    /\ call = [c \in Calls |-> NewCall]
    /\ invoked = <<>>
    /\ firstReply = [c \in Calls |-> NoReply]
    /\ noCallback = {}
    /\ stream = <<>>
    /\ fed = 0
    /\ decodedAll = <<>>
    /\ tool = ToolIdle
    /\ stderr = [p \in Procs |-> <<>>]
    /\ rate \in {NewRequestCount(server) : server \in Servers}

\* a request handler calls checkRateLimit()
CheckRateLimit(d, newDay) ==
    /\ rate' = checkRateLimit(rate, d, newDay)
    /\ UNCHANGED <<BridgeVars, tool, stderr>>

RateNext == \E d \in Delays, newDay \in BOOLEAN : CheckRateLimit(d, newDay)

RateSpec == RateInit /\ [][RateNext]_vars

\* ------------------------------------------------------------- vocabulary of the claims
Settled == {"resolved", "rejected"}

\* the promise of call record cl was settled with the content of reply r
SettledBy(cl, r) ==
    \/ cl.pc = "resolved" /\ Truthy(r.success) /\ cl.value = r.data
    \/ /\ cl.pc = "rejected" /\ ~Truthy(r.success)
       /\ cl.value = (IF Truthy(r.error) THEN r.error ELSE "Unknown error")

Count(seq, x) == Cardinality({i \in DOMAIN seq : seq[i] = x})

\* the command of call c was written to a child
Sent(c) == call[c].proc # 0

\* the transport call c was sent on is closed: shutdown() killed its child or
\* the 'exit' of its child was handled
Closed(p) == procState[p] \in {"killed", "exited"}

\* this step is a 'data' event of child p; what it read
DataStep(p) == Len(stdout'[p]) < Len(stdout[p])
Consumed(p) == SubSeq(stdout[p], 1, Len(stdout[p]) - Len(stdout'[p]))

\* the replies among the complete lines that a data event carrying `data`
\* finds, given the carry
RepliesIn(data) ==
    LET l == SplitNL(messageBuffer \o data, 1, <<>>)
    IN  {r \in {JSONparse(l[i]) : i \in 1..(Len(l) - 1)} : r.kind = "object"}

RECURSIVE Written(_)
Written(n) == IF n = 0 THEN 0 ELSE Len(stdin[n]) + Written(n - 1)

\* a line the loop body fails on: JSON.parse throws, or gives null
Malformed(line) == TrimNonEmpty(line) /\ JSONparse(line).kind # "object"

IsObject(r) == r.kind = "object"

\* the complete lines of text s that are malformed
MalformedIn(s) ==
    LET l == SplitNL(s, 1, <<>>)
    IN  {i \in 1..(Len(l) - 1) : Malformed(l[i])}

\* text s with its malformed complete lines taken out
RECURSIVE JoinWellFormed(_, _)
JoinWellFormed(l, i) ==
    IF i >= Len(l) THEN l[Len(l)]
    ELSE (IF Malformed(l[i]) THEN <<>> ELSE l[i] \o <<NL>>)
         \o JoinWellFormed(l, i + 1)

WithoutMalformed(s) == JoinWellFormed(SplitNL(s, 1, <<>>), 1)

\* what JSON.parse gives for the complete, non-blank lines of text s, in the
\* order of the text
DecodedOf(s) ==
    LET l == SplitNL(s, 1, <<>>)
        full == SelectSeq(SubSeq(l, 1, Len(l) - 1), TrimNonEmpty)
    IN  [i \in 1..Len(full) |-> JSONparse(full[i])]

\* the calls in the order in which replies rs first carry their ids
RECURSIVE CallbackOrder(_, _, _)
CallbackOrder(rs, i, acc) ==
    IF i > Len(rs) THEN acc
    ELSE LET cs == {c \in Calls : /\ rs[i].kind = "object"
                                  /\ rs[i].id = call[c].id
                                  /\ c \notin Range(acc)}
         IN  CallbackOrder(rs, i + 1,
                           IF cs = {} THEN acc
                           ELSE Append(acc, CHOOSE c \in cs : TRUE))

\* text has the piece, or all the pieces in a row
Contains(text, piece) == \E i \in DOMAIN text : text[i] = piece

ContainsAll(text, pieces) ==
    \E i \in 0..(Len(text) - Len(pieces)) :
        SubSeq(text, i + 1, i + Len(pieces)) = pieces

\* the units on the stdin of any child that carry the id of call c
UnitsOf(c) ==
    UNION {{<<p, i>> : i \in {j \in 1..Len(stdin[p]) :
                                 stdin[p][j][2] = <<"id", call[c].id, "}">>}} :
           p \in Procs}

\* this step is the 'exit' event of child p
ExitStep(p) == procState[p] # "exited" /\ procState'[p] = "exited"

\* this step spawns child p
SpawnStep(p) == procState[p] = "none" /\ procState'[p] = "running"

\* ------------------------------------------------------------- claims

\* C1: whatever the order in which the replies are fed to handlePluginOutput,
\* the promise of every call whose command was sent is settled with the
\* content of the first reply that carried the call's own id, never with the
\* content of a reply carrying another id.
C1_OwnReply ==
    \A c \in Calls :
        (Sent(c) /\ call[c].pc \in Settled) =>
            /\ firstReply[c].kind = "object"
            /\ firstReply[c].id = call[c].id
            /\ SettledBy(call[c], firstReply[c])

\* two calls sent to the same child, answered in the reverse order
C1_Witness ==
    /\ invoked = <<2, 1>>
    /\ call[1].proc = call[2].proc
    /\ call[1].pc = "resolved" /\ call[1].value = "a"
    /\ call[2].pc = "rejected" /\ call[2].value = "b"

\* C2: however a reply stream is cut into chunks, after any number of chunks
\* handlePluginOutput has decoded the same replies, in the same order, has
\* the same carry and has settled the same calls as one call fed everything
\* read so far.
C2_ChunkInvariant ==
    LET whole == HandlePluginOutput(DecodeBridge, SubSeq(stream, 1, fed))
    IN  /\ decodedAll = whole.decoded
        /\ messageBuffer = whole.buf
        /\ call = whole.call
        /\ responseCallbacks = whole.cbs
        /\ invoked = whole.invoked

\* two replies, the chunk boundary inside the second: the first is decoded,
\* the opening of the second is the carry
C2_Witness ==
    /\ Len(stream) = 6 /\ fed = 4
    /\ messageBuffer = <<Opening(DecodeId(2))>>
    /\ Len(decodedAll) = 1 /\ decodedAll[1].id = DecodeId(1)
    /\ call[1].pc = "resolved"

\* C3: once the transport a call was sent on is closed, by shutdown() or by
\* the exit of the child, the call does not stay pending forever.
C3_PendingSettledOnClose ==
    \A c \in Calls :
        (call[c].pc = "pending" /\ Sent(c) /\ Closed(call[c].proc))
            ~> (call[c].pc # "pending")

\* C4: a 'data' event of a child whose transport is closed settles no call.
C4_NoReplyAfterClosed ==
    [][\A p \in Procs : (Closed(p) /\ DataStep(p)) => call' = call]_vars

\* C5: a settled call stays as it is, no callback is invoked twice, and a
\* reply carrying the id of a call whose callback was already invoked is
\* only logged.
C5_SettledOnce ==
    [][\A c \in Calls :
          /\ call[c].pc \in Settled => call'[c] = call[c]
          /\ Count(invoked', c) <= 1
          /\ \A p \in Procs :
                (/\ DataStep(p)
                 /\ c \in Range(invoked)
                 /\ \E r \in RepliesIn(Consumed(p)) : r.id = call[c].id)
                => call[c].id \in noCallback']_vars

\* a second reply for a call that the first reply settled was just logged
C5_Witness ==
    \E c \in Calls :
        /\ c \in Range(invoked)
        /\ call[c].pc \in Settled
        /\ call[c].id \in noCallback

\* C6: a 'data' event all of whose replies have no id or an id that is not
\* registered changes neither the pending-call map nor any call.
C6_UnmatchedDropped ==
    [][\A p \in Procs :
          (/\ DataStep(p)
           /\ \A r \in RepliesIn(Consumed(p)) :
                 ~Truthy(r.id) \/ r.id \notin DOMAIN responseCallbacks)
          => /\ responseCallbacks' = responseCallbacks
             /\ call' = call
             /\ invoked' = invoked]_vars

\* a reply without id, or for an id already answered, was just dropped while
\* another call is pending and registered
C6_Witness ==
    /\ noCallback # {}
    /\ \E d \in Calls :
          /\ call[d].pc = "pending"
          /\ call[d].id \in DOMAIN responseCallbacks
          /\ call[d].id \notin noCallback

\* C7: a call rejected by its own executor (stdin missing, or serializing
\* throws) has no entry left in responseCallbacks.
C7_RolledBack ==
    \A c \in Calls :
        (call[c].pc = "rejected" /\ call[c].id # Undefined /\ ~Sent(c))
            => call[c].id \notin DOMAIN responseCallbacks

\* C8: at most one child process is alive at a time.
C8_OneChild ==
    Cardinality({p \in Procs : procState[p] = "running"}) <= 1

\* C9: the pending-call map has as many entries as commands were written to
\* the children minus the replies that matched an entry.
C9_MapSize ==
    Cardinality(DOMAIN responseCallbacks) = Written(MaxCalls) - Len(invoked)

\* C10: with the transport closed and no child at hand, the pending-call map
\* is empty.
C10_EmptyAfterClose ==
    (pluginProcess = 0 /\ \E p \in Procs : Closed(p))
        => DOMAIN responseCallbacks = {}

\* C11: shutdown() leaves no child at hand, and shutdown() called with no
\* child at hand (a second time in a row, or before any child was started)
\* changes nothing: neither the fields of the bridge, nor a child, nor a call.
C11_ShutdownIdempotent ==
    [][Shutdown =>
          /\ pluginProcess' = 0
          /\ pluginProcess = 0 =>
                UNCHANGED <<pluginProcess, responseCallbacks, messageBuffer,
                            messageId, procState, stdin, stdout, call>>]_vars

\* shutdown() has killed a child with a call pending on it: the state in
\* which a second shutdown() finds no child at hand
C11_Witness ==
    /\ pluginProcess = 0
    /\ \E c \in Calls :
          /\ call[c].pc = "pending"
          /\ Sent(c)
          /\ procState[call[c].proc] = "killed"

\* C12: a malformed line is logged and nothing more: after any number of
\* chunks the calls, the pending-call map, the order of the callbacks and
\* the replies decoded are those of the same text without its malformed
\* lines, so every valid line after a malformed one is delivered.
C12_MalformedSkipped ==
    LET read == SubSeq(stream, 1, fed)
        clean == HandlePluginOutput(DecodeBridge, WithoutMalformed(read))
    IN  /\ call = clean.call
        /\ responseCallbacks = clean.cbs
        /\ invoked = clean.invoked
        /\ messageBuffer = clean.buf
        /\ SelectSeq(decodedAll, IsObject) = clean.decoded
        /\ Len(decodedAll) - Len(clean.decoded) = Cardinality(MalformedIn(read))

\* a line that is no JSON, then the reply of call 1: the first was logged,
\* the second resolved the call
C12_Witness ==
    /\ stream = <<Opening(Undefined), NL>>
                \o ReplyLine(DecodeId(1), <<"true", "data", "a">>) \o <<NL>>
    /\ fed = Len(stream)
    /\ Len(decodedAll) = 2
    /\ decodedAll[1].kind = "SyntaxError"
    /\ call[1].pc = "resolved" /\ call[1].value = "a"
    /\ call[2].pc = "pending"

\* C13: a 'data' event settles a pending call only with a reply it carries
\* under the id of that call: success=true resolves it with the reply's
\* data, success=false rejects it with the reply's error or with 'Unknown
\* error'; a call whose id no reply of the event carries is left as it is.
C13_OnlyAddressee ==
    [][\A c \in Calls :
          LET mine == {r \in RepliesIn(SubSeq(stream, fed + 1, fed')) :
                          r.id = call[c].id}
          IN  IF mine = {}
              THEN call'[c] = call[c]
              ELSE IF call[c].pc = "pending"
              THEN \E r \in mine : SettledBy(call'[c], r)
              ELSE call'[c] = call[c]]_vars

\* a reply with success=false and no error for call 1: call 1 is rejected
\* with the default message and call 2 is still pending
C13_Witness ==
    /\ call[1].pc = "rejected" /\ call[1].value = "Unknown error"
    /\ call[2].pc = "pending"
    /\ call[2].id \in DOMAIN responseCallbacks
    /\ invoked = <<1>>

\* C14: when initialize() throws (the version check fails or the plugin
\* directory is missing, so no child is spawned) the awaiting sendCommand is
\* rejected without an id, nothing is registered and nothing is written; and
\* a sendCommand that finds no child at hand goes into initialize().
C14_SpawnFailed ==
    [][\A c \in Calls :
          /\ (call[c].pc = "initializing" /\ call'[c].pc # "initializing"
              /\ procState' = procState)
             => /\ call'[c].pc = "rejected"
                /\ call'[c].id = Undefined
                /\ call'[c].value \in {"Figma CLI not found",
                                       "Figma plugin directory not found"}
                /\ UNCHANGED <<responseCallbacks, stdin, messageId,
                               pluginProcess>>
          /\ (call[c].pc = "new" /\ call'[c].pc # "new" /\ pluginProcess = 0)
             => call'[c].pc = "initializing"]_vars

\* the start failed for call 1, and call 2 is inside initialize() again
C14_Witness ==
    /\ call[1].pc = "rejected" /\ call[1].value = "Figma CLI not found"
    /\ call[1].id = Undefined
    /\ call[2].pc = "initializing"
    /\ pluginProcess = 0
    /\ DOMAIN responseCallbacks = {}

\* C15: the callbacks are invoked in the order in which the replies stand
\* in the text read, whatever the order in which the commands were sent, and
\* each call gets the content of the first reply under its own id.
C15_ReplyOrder ==
    /\ invoked = CallbackOrder(DecodedOf(SubSeq(stream, 1, fed)), 1, <<>>)
    /\ \A c \in Range(invoked) :
          /\ firstReply[c].id = call[c].id
          /\ SettledBy(call[c], firstReply[c])

\* commands 1 and 2 were sent in that order and the replies read are that
\* of 2, then that of 1
C15_Witness ==
    /\ stdin[1] = <<Stringify(DecodeCmd, DecodeId(1)) \o <<NL>>,
                    Stringify(DecodeCmd, DecodeId(2)) \o <<NL>> >>
    /\ stream = ReplyLine(DecodeId(2), <<"false", "error", "b">>) \o <<NL>>
                \o ReplyLine(DecodeId(1), <<"true", "data", "a">>) \o <<NL>>
    /\ fed = Len(stream)
    /\ invoked = <<2, 1>>
    /\ call[2].pc = "rejected" /\ call[2].value = "b"
    /\ call[1].pc = "resolved" /\ call[1].value = "a"

\* C16: createWireframe always returns a ToolResult, and when
\* sendPluginCommand rejected the result has isError = true and a text with
\* 'Failed to create wireframe' and the message of the rejection in it.
C16_NeverThrows ==
    tool.pc = "done" =>
        /\ tool.result.outcome = "returned"
        /\ tool.reply.how = "rejected" =>
              /\ tool.result.isError = TRUE
              /\ Contains(tool.result.text, "Failed to create wireframe")
              /\ ContainsAll(tool.result.text, tool.reply.error.message)

\* sendPluginCommand rejected with the Error of a reply, and createWireframe
\* has returned
C16_Witness ==
    /\ tool.pc = "done"
    /\ tool.reply.how = "rejected"
    /\ tool.reply.error.message = <<"b">>
    /\ tool.result.text = <<"Failed to create wireframe", ": ", "b">>
    /\ Len(tool.sent) = 1

\* C17: when createWireframe is given a designSystemId and the lookup gives
\* no data, it returns an isError result with 'Design system not found' in
\* its text and has not called sendPluginCommand.
C17_DesignSystemNotFound ==
    (/\ tool.pc = "done"
     /\ Truthy(tool.params.designSystemId)
     /\ tool.lookup # NoLookup
     /\ DataOf(tool.lookup) = Undefined)
    => /\ tool.result.outcome = "returned"
       /\ tool.result.isError = TRUE
       /\ Contains(tool.result.text, "Failed to create wireframe")
       /\ Contains(tool.result.text, "Design system not found")
       /\ tool.sent = <<>>

\* the lookup of 'invalid-system' gave empty contents and createWireframe
\* has returned
C17_Witness ==
    /\ tool.pc = "done"
    /\ tool.params.designSystemId = "invalid-system"
    /\ tool.lookup.contents = "empty"
    /\ tool.result.isError = TRUE
    /\ tool.sent = <<>>

\* C18: a command is never written to the stdin of a child that was killed
\* by shutdown() or whose exit was handled; a sendCommand that finds no child
\* at hand writes to a child spawned for it, which is running.
C18_FreshChild ==
    [][\A c \in Calls :
          (~Sent(c) /\ Sent(c)') =>
              LET p == call'[c].proc
              IN  /\ ~Closed(p)
                  /\ procState'[p] = "running"
                  /\ pluginProcess' = p
                  /\ pluginProcess = 0 => procState[p] = "none"
                  /\ \A q \in Procs : Closed(q) => stdin'[q] = stdin[q]]_vars

\* the child call 1 was sent to is closed and call 2 was written to another
\* child, which is running
C18_Witness ==
    /\ Sent(1) /\ Sent(2)
    /\ Closed(call[1].proc)
    /\ call[2].proc # call[1].proc
    /\ procState[call[2].proc] = "running"
    /\ Len(stdin[call[1].proc]) = 1
    /\ Len(stdin[call[2].proc]) = 1

\* C19: every call whose command was written to a child and whose callback
\* was not yet invoked has its entry in the pending-call map, under its id.
C19_RegisteredBeforeWrite ==
    \A c \in Calls :
        (Sent(c) /\ c \notin Range(invoked)) =>
            /\ call[c].id \in DOMAIN responseCallbacks
            /\ responseCallbacks[call[c].id] = c

\* two commands on the wire, both registered, the reply to the first in the
\* pipe and not yet read
C19_Witness ==
    /\ Sent(1) /\ Sent(2)
    /\ invoked = <<>>
    /\ DOMAIN responseCallbacks = {call[1].id, call[2].id}
    /\ stdout[call[1].proc] = ReplyLine(call[1].id, <<"true", "data", "a">>) \o <<NL>>

\* C20: the id a call is given is the id of no other call and is not yet a
\* key of the pending-call map, so registering it replaces no entry; at any
\* time the calls that have an id have different ids.
C20_FreshId ==
    [][/\ \A c \in Calls :
             (call[c].id = Undefined /\ call'[c].id # Undefined) =>
                 /\ call'[c].id \notin DOMAIN responseCallbacks
                 /\ \A d \in Calls \ {c} : call[d].id # call'[c].id
                 /\ \A k \in DOMAIN responseCallbacks :
                       /\ k \in DOMAIN responseCallbacks'
                       /\ responseCallbacks'[k] = responseCallbacks[k]
       /\ \A c, d \in Calls :
             (c # d /\ call'[c].id # Undefined) => call'[c].id # call'[d].id]_vars

\* two calls were given ids by the same bridge and both are registered
C20_Witness ==
    /\ call[1].id = "cmd_0_0"
    /\ call[2].id = "cmd_0_1"
    /\ responseCallbacks = [i \in {"cmd_0_0", "cmd_0_1"} |->
                               IF i = "cmd_0_0" THEN 1 ELSE 2]

\* C22: the stdin of a child changes only in the step in which a call is
\* sent, by one unit, the command of that call; and at any time every call
\* that was sent has exactly one unit on the wire and every other call none,
\* whatever replies, exits, shutdowns and restarts there were.
C22_NoRetry ==
    [][/\ \A p \in Procs :
             \/ stdin'[p] = stdin[p]
             \/ \E c \in Calls :
                   /\ ~Sent(c) /\ Sent(c)' /\ call'[c].proc = p
                   /\ stdin'[p] = Append(stdin[p],
                                         Stringify(call'[c].cmd, call'[c].id) \o <<NL>>)
       /\ \A c \in Calls :
             Cardinality(UnitsOf(c))' = (IF Sent(c)' THEN 1 ELSE 0)]_vars

\* call 1 was answered with a failure and its child is gone, call 2 went to
\* a new child: each command is on the wire once
C22_Witness ==
    /\ call[1].pc = "rejected" /\ call[1].value = "b"
    /\ Sent(1) /\ procState[call[1].proc] = "exited"
    /\ Sent(2) /\ call[2].proc # call[1].proc
    /\ Cardinality(UnitsOf(1)) = 1
    /\ Cardinality(UnitsOf(2)) = 1

\* C23: a pending call whose child stays running is settled by nothing but
\* a 'data' event that carries a reply under its id: in every other step,
\* however many there are, it stays pending and its entry stays in the
\* pending-call map.
C23_NoTimeout ==
    [][\A c \in Calls :
          (/\ call[c].pc = "pending"
           /\ Sent(c)
           /\ procState'[call[c].proc] = "running"
           /\ ~\E p \in Procs :
                  /\ DataStep(p)
                  /\ \E r \in RepliesIn(Consumed(p)) : r.id = call[c].id)
          => /\ call'[c] = call[c]
             /\ call[c].id \in DOMAIN responseCallbacks'
             /\ responseCallbacks'[call[c].id] = c]_vars

\* call 2 was answered, the child has nothing more to say and is running:
\* call 1, sent before it to the same child, is pending and registered
C23_Witness ==
    /\ call[1].pc = "pending" /\ Sent(1)
    /\ call[2].pc = "resolved" /\ call[2].proc = call[1].proc
    /\ procState[call[1].proc] = "running"
    /\ stdout[call[1].proc] = <<>>
    /\ messageBuffer = <<>>
    /\ call[1].id \in DOMAIN responseCallbacks

\* C24: a read that brings no newline delivers nothing, and after every
\* read the replies delivered so far are those of the lines whose newline
\* was read, in the order of the text; what follows the last newline waits
\* in the carry.
C24_CompleteLinesOnly ==
    [][LET data == SubSeq(stream, fed + 1, fed')
           read == SubSeq(stream, 1, fed')
           lines == SplitNL(read, 1, <<>>)
       IN  /\ (\A i \in DOMAIN data : data[i] # NL) =>
                 /\ decodedAll' = decodedAll
                 /\ call' = call
                 /\ invoked' = invoked
                 /\ messageBuffer' = messageBuffer \o data
           /\ decodedAll' = DecodedOf(read)
           /\ messageBuffer' = lines[Len(lines)]]_vars

\* two full records, the first read ending inside the first record: nothing
\* is delivered and the part read is the carry
C24_Witness ==
    /\ stream = ReplyLine(DecodeId(1), <<"true", "data", "a">>) \o <<NL>>
                \o ReplyLine(DecodeId(2), <<"false", "error", "b">>) \o <<NL>>
    /\ fed = 1
    /\ decodedAll = <<>>
    /\ invoked = <<>>
    /\ messageBuffer = <<Opening(DecodeId(1))>>
    /\ \A c \in Calls : call[c].pc = "pending"

\* C25: every unit on the stdin of a child is the serialized command of one
\* call sent to that child, with the id of the call, then one newline and
\* nothing after it, and there is no raw newline inside the command.
C25_OneRecordPerWrite ==
    \A p \in Procs :
        \A i \in 1..Len(stdin[p]) :
            LET u == stdin[p][i]
            IN  /\ Len(u) = 3
                /\ u[3] = NL
                /\ u[1] # NL /\ u[2] # NL
                /\ \A k \in DOMAIN u[1] : u[1][k] # "\n"
                /\ \A k \in DOMAIN u[2] : u[2][k] # "\n"
                /\ u[1][1] = "{"
                /\ \E c \in Calls :
                      /\ Sent(c) /\ call[c].proc = p
                      /\ u[1][3] = call[c].cmd.type
                      /\ u[2] = <<"id", call[c].id, "}">>

\* a command whose payload has a newline in it is on the wire, the newline
\* escaped
C25_Witness ==
    \E p \in Procs :
        /\ Len(stdin[p]) = 1
        /\ stdin[p][1] = << <<"{", "type", "GET_SELECTION", "payload", "p", "\\n">>,
                            <<"id", "cmd_0_0", "}">>, NL >>
        /\ call[1].cmd.payload = <<"p", "\n">>

\* C26: a 'data' event of a child's stderr changes neither the carry, nor
\* the pending-call map, nor a call, nor what was decoded.
C26_StderrOnlyLogged ==
    [][\A p \in Procs :
          Len(stderr'[p]) < Len(stderr[p]) =>
              UNCHANGED <<messageBuffer, responseCallbacks, call, invoked,
                          firstReply, decodedAll>>]_vars

\* the opening of a reply for call 1 was read from stderr, its end is still
\* in the pipe; call 1 is pending and the carry holds the opening of its
\* reply from stdout
C26_Witness ==
    /\ stderr[1] = << <<"}", "true", "data", "a">>, NL >>
    /\ call[1].pc = "pending"
    /\ call[1].id \in DOMAIN responseCallbacks
    /\ messageBuffer = <<Opening(DecodeId(1))>>

\* C27: the 'exit' event of a child that is not the bridge's current child
\* leaves the bridge's reference to its current child as it is.
C27_StaleExit ==
    [][\A p \in Procs :
          (ExitStep(p) /\ pluginProcess # 0 /\ pluginProcess # p)
              => pluginProcess' = pluginProcess]_vars

\* C28: when the children before child p have exited and the bridge reads
\* from p one complete reply line for a call pending on p, from the opening
\* to the newline, the call is settled with that reply: nothing left over
\* from an earlier child is put in front of the line.
C28_CarryPerTransport ==
    [][\A p \in Procs, c \in Calls :
          (/\ DataStep(p)
           /\ \E q \in Procs : q < p /\ procState[q] = "exited"
           /\ \A q \in Procs \ {p} : procState[q] \in {"none", "exited"}
           /\ call[c].pc = "pending"
           /\ call[c].proc = p
           /\ call[c].id \in DOMAIN responseCallbacks
           /\ \E o \in Outcomes : Consumed(p) = ReplyLine(call[c].id, o) \o <<NL>>)
          => SettledBy(call'[c], JSONparse(SubSeq(Consumed(p), 1, 2)))]_vars

C30_RateBounds ==
    [][/\ rate'.second <= PerSecond
       /\ rate'.day <= PerDay(rate'.server)
       /\ rate'.last = "rejected" =>
             /\ rate'.second \in {rate.second, 0}
             /\ rate'.day \in {rate.day, 0}]_vars

\* a call of the Serper server was rejected for the per-second limit while
\* daily quota was left
C30_Witness ==
    /\ rate.server = "serper"
    /\ rate.last = "rejected"
    /\ rate.second = PerSecond
    /\ rate.day = PerSecond
    /\ rate.sinceReset = WindowMs

====
